---- MODULE Spec2Model ----
(***************************************************************************)
(* Model of the three-stage analysis pipeline of analizadorPython-back:    *)
(* lexer.Analyze (src/src/lexer/Lexer.go), parser.Analyze and              *)
(* semantico.Analyze (both in src/src/semantico/semantic.go) and the       *)
(* request handler analyzeCode (src/unnamed/part_000).                     *)
(*                                                                         *)
(* Go strings are TLA+ strings; the byte at 0-based index i of s is        *)
(* SubSeq(s, i+1, i+1).  Inputs are ASCII, so bytes and runes coincide.    *)
(* A nil *ASTNode is the record Nil.  A run-time panic (nil dereference)   *)
(* is the flag "fault" carried by the parser state.                        *)
(***************************************************************************)
EXTENDS Integers, Sequences, FiniteSets, TLC

VARIABLES pc, code, lexicalResult, p, program, attempts,
          syntaxResult, semanticResult, response

vars == <<pc, code, lexicalResult, p, program, attempts,
          syntaxResult, semanticResult, response>>

\* the value of a variable of the handler not assigned yet
None == [none |-> TRUE]

(***************************************************************************)
(* Strings                                                                 *)
(***************************************************************************)
\* s[i] of Go, 1-based here
Ch(s, i) == SubSeq(s, i, i)

\* s[i:] of Go with i 1-based here
From(s, i) == SubSeq(s, i, Len(s))

\* v := e; Rest: e is evaluated once, before the rest of the function body runs
With(v, Rest(_)) == IF v = v THEN Rest(v) ELSE Rest(v)

RECURSIVE IndexFrom(_, _, _)
\* least position >= i at which sub occurs in s, 0 if none
IndexFrom(s, sub, i) ==
    IF i + Len(sub) - 1 > Len(s) THEN 0
    ELSE IF SubSeq(s, i, i + Len(sub) - 1) = sub THEN i
    ELSE IndexFrom(s, sub, i + 1)

\* strings.Contains
Contains(s, sub) == IndexFrom(s, sub, 1) # 0

RECURSIVE Split(_, _)
\* strings.Split(s, sep) for a one-character separator
Split(s, sep) ==
    LET k == IndexFrom(s, sep, 1)
    IN  IF k = 0 THEN <<s>>
        ELSE <<SubSeq(s, 1, k - 1)>> \o Split(From(s, k + 1), sep)

RECURSIVE Itoa(_)
\* the %d verb of fmt.Sprintf for a non-negative integer
Itoa(n) ==
    IF n < 10 THEN Ch("0123456789", n + 1)
    ELSE Itoa(n \div 10) \o Ch("0123456789", (n % 10) + 1)

(***************************************************************************)
(* Lexer (package lexer)                                                   *)
(***************************************************************************)
KEYWORD == "KEYWORD"
IDENTIFIER == "IDENTIFIER"
NUMBER == "NUMBER"
\* lexer.STRING (STRING is a reserved word of TLA+)
STRINGLIT == "STRING"
SYMBOL == "SYMBOL"
WHITESPACE == "WHITESPACE"
NEWLINE == "NEWLINE"
ERROR == "ERROR"

Token(type, value, line, column) ==
    [Type |-> type, Value |-> value, Line |-> line, Column |-> column]

\* lexer.Token{}: the zero value returned by peek() and previous()
ZeroToken == [Type |-> KEYWORD, Value |-> "", Line |-> 0, Column |-> 0]

pythonKeywords ==
    {"def", "if", "else", "elif", "while", "for", "in", "try", "except",
     "finally", "with", "as", "pass", "break", "continue", "return", "yield",
     "import", "from", "class", "and", "or", "not", "is", "lambda",
     "None", "True", "False", "print"}

pythonSymbols ==
    {"==", "!=", "<=", ">=", ">>", "<<", "**", "//", "+=", "-=", "*=", "/=",
     "=", "+", "-", "*", "/", "%", "<", ">", "(", ")", "[", "]", "{", "}",
     ":", ";", ",", ".", "&", "|", "^", "~", "!", "@", "#", "$", "?"}

AsciiLetters == "abcdefghijklmnopqrstuvwxyzABCDEFGHIJKLMNOPQRSTUVWXYZ"

\* the vertical tab, byte 0x0B, which has no escape in a string: the
\* character between the quotes is that byte itself
VerticalTab == ""

\* unicode.IsSpace on an ASCII byte: '\t', '\n', '\v', '\f', '\r' and ' '
IsSpace(c) == c \in {" ", "\t", "\n", VerticalTab, "\f", "\r"}

\* unicode.IsDigit on an ASCII byte
IsDigit(c) == c \in {"0", "1", "2", "3", "4", "5", "6", "7", "8", "9"}

\* unicode.IsLetter on an ASCII byte
IsLetter(c) == Len(c) = 1 /\ Contains(AsciiLetters, c)

EmptyLexicalResult ==
    [Tokens |-> <<>>,
     Table |-> [PR |-> <<>>, ID |-> <<>>, Numeros |-> <<>>,
                Simbolos |-> <<>>, Error |-> <<>>],
     Statistics |-> [Keywords |-> 0, Identifiers |-> 0, Numbers |-> 0,
                     Strings |-> 0, Symbols |-> 0, Errors |-> 0],
     Errors |-> <<>>,
     ReservedWords |-> 0]

addToken(r, token) ==
    LET r1 == [r EXCEPT !.Tokens = Append(@, token)]
    IN  CASE token.Type = KEYWORD ->
               [r1 EXCEPT !.Table.PR = Append(@, token.Value),
                          !.Statistics.Keywords = @ + 1]
          [] token.Type = IDENTIFIER ->
               [r1 EXCEPT !.Table.ID = Append(@, token.Value),
                          !.Statistics.Identifiers = @ + 1]
          [] token.Type = NUMBER ->
               [r1 EXCEPT !.Table.Numeros = Append(@, token.Value),
                          !.Statistics.Numbers = @ + 1]
          [] token.Type = STRINGLIT ->
               [r1 EXCEPT !.Statistics.Strings = @ + 1]
          [] token.Type = SYMBOL ->
               [r1 EXCEPT !.Table.Simbolos = Append(@, token.Value),
                          !.Statistics.Symbols = @ + 1]
          [] token.Type = ERROR ->
               [r1 EXCEPT !.Table.Error = Append(@, token.Value),
                          !.Statistics.Errors = @ + 1]
          [] OTHER -> r1

RECURSIVE StringEnd(_, _, _)
\* the loop of processString: i is the 0-based index of Go
StringEnd(text, quote, i) ==
    IF i < Len(text) /\ Ch(text, i + 1) # quote
    THEN IF Ch(text, i + 1) = "\\" /\ i + 1 < Len(text)
         THEN StringEnd(text, quote, i + 2)
         ELSE StringEnd(text, quote, i + 1)
    ELSE i

\* processString reporting an unterminated string as its quote alone
processStringQuoteOnly(text, line, column, quote) ==
    LET i == StringEnd(text, quote, 1)
    IN  IF i >= Len(text)
        THEN [token |-> Token(ERROR, Ch(text, 1), line, column), length |-> 1]
        ELSE [token |-> Token(STRINGLIT, SubSeq(text, 1, i + 1), line, column),
              length |-> i + 1]

\* returns the token and the length consumed
processString(text, line, column, quote) ==
    LET i == StringEnd(text, quote, 1)
    IN  IF i >= Len(text)
        THEN [token |-> Token(ERROR, text, line, column), length |-> Len(text)]
        ELSE [token |-> Token(STRINGLIT, SubSeq(text, 1, i + 1), line, column),
              length |-> i + 1]

RECURSIVE NumberEnd(_, _, _)
\* the loop of processNumber: i is the 0-based index of Go
NumberEnd(text, i, hasDecimal) ==
    IF i < Len(text) /\ (IsDigit(Ch(text, i + 1)) \/ Ch(text, i + 1) = ".")
    THEN IF Ch(text, i + 1) = "."
         THEN IF hasDecimal THEN i ELSE NumberEnd(text, i + 1, TRUE)
         ELSE NumberEnd(text, i + 1, hasDecimal)
    ELSE i

RECURSIVE DigitsAndDotsEnd(_, _)
\* the end of the run of digits and dots of text from 0-based index i
DigitsAndDotsEnd(text, i) ==
    IF i < Len(text) /\ (IsDigit(Ch(text, i + 1)) \/ Ch(text, i + 1) = ".")
    THEN DigitsAndDotsEnd(text, i + 1)
    ELSE i

\* processNumber taking every dot into the number
processNumberAnyDots(text, line, column) ==
    LET i == DigitsAndDotsEnd(text, 0)
    IN  [token |-> Token(NUMBER, SubSeq(text, 1, i), line, column), length |-> i]

processNumber(text, line, column) ==
    LET i == NumberEnd(text, 0, FALSE)
    IN  [token |-> Token(NUMBER, SubSeq(text, 1, i), line, column), length |-> i]

RECURSIVE IdentifierEnd(_, _)
\* the loop of processIdentifier: i is the 0-based index of Go
IdentifierEnd(text, i) ==
    IF i < Len(text) /\ (IsLetter(Ch(text, i + 1)) \/ IsDigit(Ch(text, i + 1))
                         \/ Ch(text, i + 1) = "_")
    THEN IdentifierEnd(text, i + 1)
    ELSE i

processIdentifier(text, line, column) ==
    LET i == IdentifierEnd(text, 0)
        value == SubSeq(text, 1, i)
        tokenType == IF value \in pythonKeywords THEN KEYWORD ELSE IDENTIFIER
    IN  [token |-> Token(tokenType, value, line, column), length |-> i]

processSymbol(text, line, column) ==
    IF Len(text) >= 2 /\ SubSeq(text, 1, 2) \in pythonSymbols
    THEN [token |-> Token(SYMBOL, SubSeq(text, 1, 2), line, column), length |-> 2]
    ELSE IF Ch(text, 1) \in pythonSymbols
    THEN [token |-> Token(SYMBOL, Ch(text, 1), line, column), length |-> 1]
    ELSE [token |-> Token(ERROR, Ch(text, 1), line, column), length |-> 1]

\* the diagnostic of processLine for an unrecognized character
LexErrorMessage(char, lineNum, column) ==
    "Carácter no reconocido '" \o char \o "' en línea " \o Itoa(lineNum)
        \o ", columna " \o Itoa(column)

\* a token is added and i and column move past it
\* Consumed leaving the column where it was
ConsumedKeepingColumn(s, t) ==
    [s EXCEPT !.r = addToken(s.r, t.token), !.i = s.i + t.length]

Consumed(s, t) ==
    [s EXCEPT !.r = addToken(s.r, t.token),
              !.i = s.i + t.length, !.column = s.column + t.length]

\* one iteration of processLine's loop on its variables s = [r, i, column]
\* (i the 0-based index of Go); done is set where the loop breaks
processLineIter(s, line, lineNum) ==
    LET char == Ch(line, s.i + 1)
        text == From(line, s.i + 1)
        sym == processSymbol(text, lineNum, s.column)
    IN  IF IsSpace(char) THEN [s EXCEPT !.i = s.i + 1, !.column = s.column + 1]
        ELSE IF char = "#" THEN [s EXCEPT !.done = TRUE]
        ELSE IF char = "\"" \/ char = "'"
        THEN Consumed(s, processString(text, lineNum, s.column, char))
        ELSE IF IsDigit(char)
        THEN Consumed(s, processNumber(text, lineNum, s.column))
        ELSE IF IsLetter(char) \/ char = "_"
        THEN Consumed(s, processIdentifier(text, lineNum, s.column))
        ELSE IF sym.token.Type = ERROR
        THEN Consumed([s EXCEPT !.r.Errors =
                          Append(@, LexErrorMessage(char, lineNum, s.column))], sym)
        ELSE Consumed(s, sym)

RECURSIVE processLineLoop(_, _, _)
\* processLine's loop from the state s on
processLineLoop(s, line, lineNum) ==
    IF s.done \/ ~(s.i < Len(line)) THEN s.r
    ELSE processLineLoop(processLineIter(s, line, lineNum), line, lineNum)

processLine(r, line, lineNum) ==
    processLineLoop([r |-> r, i |-> 0, column |-> 1, done |-> FALSE], line, lineNum)

RECURSIVE processLines(_, _, _)
\* the range loop of lexer.Analyze over the lines, from 1-based line lineNum
processLines(r, lines, lineNum) ==
    IF lineNum > Len(lines) THEN r
    ELSE With(processLine(r, lines[lineNum], lineNum), LAMBDA r2 :
         processLines(r2, lines, lineNum + 1))

\* lexer.Analyze
LexerAnalyze(src) ==
    LET r == processLines(EmptyLexicalResult, Split(src, "\n"), 1)
    IN  [r EXCEPT !.ReservedWords = r.Statistics.Keywords]

(***************************************************************************)
(* Parser (package parser)                                                 *)
(***************************************************************************)
\* an *ASTNode
Node(type, value, line, children) ==
    [Type |-> type, Value |-> value, Line |-> line, Children |-> children]

\* the nil *ASTNode
Nil == [Type |-> "nil", Value |-> "", Line |-> 0, Children |-> <<>>]

\* a production's result: the parser after it and the node it returns
R(q, node) == [p |-> q, node |-> node]

filterTokens(tokens) ==
    SelectSeq(tokens, LAMBDA token : token.Type # WHITESPACE /\ token.Type # NEWLINE)

\* the Parser built by parser.Analyze; current is the 0-based index of Go
NewParser(tokens) ==
    [tokens |-> filterTokens(tokens), current |-> 0, errors |-> <<>>,
     indent |-> 0, fault |-> FALSE]

isAtEnd(q) == q.current >= Len(q.tokens)

peek(q) == IF isAtEnd(q) THEN ZeroToken ELSE q.tokens[q.current + 1]

previous(q) == IF q.current = 0 THEN ZeroToken ELSE q.tokens[q.current]

\* after a panic nothing more of the parser runs: every primitive is inert
check(q, tokenValue) ==
    IF q.fault \/ isAtEnd(q) THEN FALSE ELSE peek(q).Value = tokenValue

checkType(q, tokenType) ==
    IF q.fault \/ isAtEnd(q) THEN FALSE ELSE peek(q).Type = tokenType

checkNext(q, tokenValue) ==
    IF q.current + 1 >= Len(q.tokens) THEN FALSE
    ELSE q.tokens[q.current + 2].Value = tokenValue

\* the parser after advance(); the token it returns is previous() of the result
advance(q) ==
    IF ~q.fault /\ ~isAtEnd(q) THEN [q EXCEPT !.current = @ + 1] ELSE q

\* match(types...): the parser after it and whether a token was consumed
match(q, types) ==
    IF \E i \in 1..Len(types) : check(q, types[i])
    THEN [p |-> advance(q), ok |-> TRUE]
    ELSE [p |-> q, ok |-> FALSE]

\* the parser after p.error(message)
error(q, message) ==
    LET line == IF ~isAtEnd(q) THEN peek(q).Line ELSE 1
    IN  IF q.fault THEN q
        ELSE [q EXCEPT !.errors =
                 Append(@, "Error en línea " \o Itoa(line) \o ": " \o message)]

RECURSIVE parseStatement(_), parseFunctionDef(_), paramsLoop(_, _),
          parseIfStatement(_), parseBlock(_), blockLoop(_, _),
          parseAssignmentOrExpression(_), parseAssignment(_),
          parseExpressionStatement(_), parseExpression(_),
          parseComparison(_), comparisonLoop(_, _), parseTerm(_),
          termLoop(_, _), parseFactor(_), argsLoop(_, _)

parseStatement(q) ==
    IF check(q, "def") THEN parseFunctionDef(advance(q))
    ELSE IF check(q, "if") THEN parseIfStatement(advance(q))
    ELSE IF check(q, "print") THEN parseExpressionStatement(q)
    ELSE IF checkType(q, IDENTIFIER) THEN parseAssignmentOrExpression(q)
    ELSE parseExpressionStatement(q)

\* the parameter loop of parseFunctionDef: the parser after it and the params
paramsLoop(q, params) ==
    IF ~checkType(q, IDENTIFIER)
    THEN [p |-> error(q, "Se esperaba nombre de parámetro"), params |-> params]
    ELSE LET q1 == advance(q)
             param == Node("Parameter", previous(q1).Value, previous(q1).Line, <<>>)
             m == match(q1, <<",">>)
         IN  IF ~m.ok THEN [p |-> m.p, params |-> Append(params, param)]
             ELSE paramsLoop(m.p, Append(params, param))

parseFunctionDef(q) ==
    LET line == previous(q).Line
        q1 == advance(q)
        name == previous(q1).Value
        m1 == match(q1, <<"(">>)
    IN  IF ~checkType(q, IDENTIFIER)
        THEN R(error(q, "Se esperaba nombre de función"), Nil)
        ELSE IF ~m1.ok
        THEN R(error(m1.p, "Se esperaba '(' después del nombre de función"), Nil)
        ELSE
        With(IF ~check(m1.p, ")") THEN paramsLoop(m1.p, <<>>)
             ELSE [p |-> m1.p, params |-> <<>>], LAMBDA ps :
        LET m2 == match(ps.p, <<")">>)
            m3 == match(m2.p, <<":">>)
        IN  IF ~m2.ok
            THEN R(error(m2.p, "Se esperaba ')' después de los parámetros"), Nil)
            ELSE IF ~m3.ok
            THEN R(error(m3.p,
                     "Se esperaba ':' después de la definición de función"), Nil)
            ELSE
            With(parseBlock(m3.p), LAMBDA body :
            R(body.p, Node("FunctionDef", name, line,
                           Append(ps.params, body.node)))))

parseIfStatement(q) ==
    LET line == previous(q).Line
    IN  With(parseExpression(q), LAMBDA condition :
        LET m == match(condition.p, <<":">>)
        IN  IF condition.node = Nil THEN R(condition.p, Nil)
            ELSE IF ~m.ok
            THEN R(error(m.p, "Se esperaba ':' después de la condición if"), Nil)
            ELSE
            With(parseBlock(m.p), LAMBDA thenBranch :
            R(thenBranch.p, Node("IfStatement", "", line,
                                 <<condition.node, thenBranch.node>>))))

\* the condition of parseBlock's loop
blockContinues(q) ==
    /\ ~q.fault
    /\ ~isAtEnd(q) /\ ~check(q, "def") /\ ~check(q, "if")
    /\ ~checkNext(q, "def") /\ ~checkNext(q, "if")

\* the loop of parseBlock: the parser after it and the block's children
blockLoop(q, children) ==
    IF blockContinues(q)
    THEN With(parseStatement(q), LAMBDA stmt :
         LET q1 == IF stmt.node # Nil THEN stmt.p ELSE advance(stmt.p)
             children1 == IF stmt.node # Nil THEN Append(children, stmt.node)
                          ELSE children
         IN  IF q1.current >= Len(q1.tokens) - 1
             THEN [p |-> q1, children |-> children1]
             ELSE blockLoop(q1, children1))
    ELSE [p |-> q, children |-> children]

parseBlock(q) ==
    With(blockLoop(q, <<>>), LAMBDA b :
    R(b.p, Node("Block", "", peek(q).Line, b.children)))

parseAssignmentOrExpression(q) ==
    IF q.current + 1 < Len(q.tokens) /\ q.tokens[q.current + 2].Value = "="
    THEN parseAssignment(q)
    ELSE parseExpressionStatement(q)

parseAssignment(q) ==
    LET line == peek(q).Line
        q1 == advance(q)
        name == previous(q1).Value
        m == match(q1, <<"=">>)
    IN  IF ~checkType(q, IDENTIFIER)
        THEN R(error(q, "Se esperaba identificador en asignación"), Nil)
        ELSE IF ~m.ok THEN R(error(m.p, "Se esperaba '=' en asignación"), Nil)
        ELSE
        With(parseExpression(m.p), LAMBDA value :
        IF value.node = Nil THEN R(value.p, Nil)
        ELSE R(value.p, Node("Assignment", name, line, <<value.node>>)))

parseExpressionStatement(q) ==
    With(parseExpression(q), LAMBDA expr :
    IF expr.node = Nil THEN R(expr.p, Nil)
    ELSE R(expr.p, Node("ExpressionStatement", "", expr.node.Line, <<expr.node>>)))

parseExpression(q) == parseComparison(q)

\* the loop of parseComparison; expr.Line of a nil expr is a nil dereference
comparisonLoop(q, expr) ==
    LET m == match(q, <<">", "<", ">=", "<=", "==", "!=">>)
        operator == previous(m.p).Value
    IN  IF ~m.ok THEN R(q, expr)
        ELSE
        With(parseTerm(m.p), LAMBDA right :
        IF right.p.fault THEN R(right.p, Nil)
        ELSE IF expr = Nil THEN R([right.p EXCEPT !.fault = TRUE], Nil)
        ELSE comparisonLoop(right.p,
                 Node("BinaryOp", operator, expr.Line, <<expr, right.node>>)))

parseComparison(q) ==
    With(parseTerm(q), LAMBDA expr : comparisonLoop(expr.p, expr.node))

\* the loop of parseTerm; expr.Line of a nil expr is a nil dereference
termLoop(q, expr) ==
    LET m == match(q, <<"+", "-">>)
        operator == previous(m.p).Value
    IN  IF ~m.ok THEN R(q, expr)
        ELSE
        With(parseFactor(m.p), LAMBDA right :
        IF right.p.fault THEN R(right.p, Nil)
        ELSE IF expr = Nil THEN R([right.p EXCEPT !.fault = TRUE], Nil)
        ELSE termLoop(right.p,
                 Node("BinaryOp", operator, expr.Line, <<expr, right.node>>)))

parseTerm(q) ==
    With(parseFactor(q), LAMBDA expr : termLoop(expr.p, expr.node))

\* the argument loops of parseFactor: the parser after it and the args
argsLoop(q, args) ==
    With(parseExpression(q), LAMBDA arg :
    LET args1 == IF arg.node # Nil THEN Append(args, arg.node) ELSE args
        m == match(arg.p, <<",">>)
    IN  IF ~m.ok THEN [p |-> m.p, args |-> args1]
        ELSE argsLoop(m.p, args1))

\* the argument list and the closing parenthesis of a call, after its "("
callArgs(q, message) ==
    With(IF ~check(q, ")") THEN argsLoop(q, <<>>) ELSE [p |-> q, args |-> <<>>],
         LAMBDA al :
    LET m == match(al.p, <<")">>)
    IN  [p |-> IF ~m.ok THEN error(m.p, message) ELSE m.p, args |-> al.args])

parseFactor(q) ==
    IF check(q, "(") THEN
        With(parseExpression(advance(q)), LAMBDA expr :
        LET m == match(expr.p, <<")">>)
        IN  IF ~m.ok
            THEN R(error(m.p, "Se esperaba ')' después de la expresión"), expr.node)
            ELSE R(m.p, expr.node))
    ELSE IF checkType(q, NUMBER) THEN
        LET q1 == advance(q)
        IN  R(q1, Node("Number", previous(q1).Value, previous(q1).Line, <<>>))
    ELSE IF checkType(q, STRINGLIT) THEN
        LET q1 == advance(q)
        IN  R(q1, Node("String", previous(q1).Value, previous(q1).Line, <<>>))
    ELSE IF checkType(q, IDENTIFIER) THEN
        LET q1 == advance(q)
            name == previous(q1).Value
            q3 == advance(advance(q1))
            method == previous(q3).Value
        IN  IF check(q1, "(") THEN
                With(callArgs(advance(q1),
                              "Se esperaba ')' después de los argumentos"),
                     LAMBDA c :
                R(c.p, Node("FunctionCall", name, previous(c.p).Line, c.args)))
            ELSE IF check(q1, ".") /\ ~checkType(advance(q1), IDENTIFIER) THEN
                R(error(advance(q1),
                        "Se esperaba nombre de método después de '.'"), Nil)
            ELSE IF check(q1, ".") /\ check(q3, "(") THEN
                With(callArgs(advance(q3),
                       "Se esperaba ')' después de los argumentos del método"),
                     LAMBDA c :
                R(c.p, Node("MethodCall", name \o "." \o method,
                            previous(c.p).Line, c.args)))
            ELSE IF check(q1, ".") THEN
                R(q3, Node("Identifier", name, previous(q3).Line, <<>>))
            ELSE R(q1, Node("Identifier", name, previous(q1).Line, <<>>))
    ELSE R(error(q, "Se esperaba expresión"), Nil)

RECURSIVE Atoi(_, _, _)
\* the %d verb of fmt.Sscanf: the digits of s from 1-based position i on
Atoi(s, i, acc) ==
    IF i <= Len(s) /\ IsDigit(Ch(s, i))
    THEN Atoi(s, i + 1, acc * 10 + (IndexFrom("0123456789", Ch(s, i), 1) - 1))
    ELSE acc

getErrorLine(q) ==
    IF Len(q.errors) = 0 THEN 0
    ELSE LET errorMsg == q.errors[1]
         IN  IF Contains(errorMsg, "línea ")
             THEN IF SubSeq(errorMsg, 1, 15) = "Error en línea "
                  THEN Atoi(errorMsg, 16, 0) ELSE 0
             ELSE 0

\* what parser.Analyze returns once parseProgram has returned ast
SyntaxResult(q, ast) ==
    [AST |-> ast, Errors |-> q.errors, Success |-> Len(q.errors) = 0,
     ErrorLine |-> getErrorLine(q)]

(***************************************************************************)
(* Semantic checker (package semantico)                                    *)
(***************************************************************************)
IntType == "int"
StringType == "string"
BoolType == "bool"
UnknownType == "unknown"

Variable(name, type, line) == [Name |-> name, Type |-> type, Line |-> line]

\* make(map[string]Variable)
EmptyVariables == [name \in {} |-> Variable("", UnknownType, 0)]

\* the SemanticAnalyzer built by semantico.Analyze
NewAnalyzer(tokens) ==
    [variables |-> EmptyVariables, errors |-> <<>>, tokens |-> tokens]

\* sa.variables[name] = v
SetVariable(sa, name, v) ==
    [sa EXCEPT !.variables =
        [n \in (DOMAIN sa.variables) \cup {name} |->
            IF n = name THEN v ELSE sa.variables[n]]]

addError(sa, line, message) ==
    [sa EXCEPT !.errors =
        Append(@, "Error semántico en línea " \o Itoa(line) \o ": " \o message)]

RECURSIVE inferType(_, _)
inferType(sa, node) ==
    IF node = Nil THEN UnknownType
    ELSE CASE node.Type = "Number" -> IntType
           [] node.Type = "String" -> StringType
           [] node.Type = "Identifier" ->
                IF node.Value \in DOMAIN sa.variables
                THEN sa.variables[node.Value].Type
                ELSE UnknownType
           [] node.Type = "BinaryOp" ->
                IF node.Value \in {">", "<", ">=", "<=", "==", "!="} THEN BoolType
                ELSE IF Len(node.Children) >= 2 THEN
                    LET leftType == inferType(sa, node.Children[1])
                        rightType == inferType(sa, node.Children[2])
                    IN  IF leftType = IntType /\ rightType = IntType THEN IntType
                        ELSE IF leftType = StringType \/ rightType = StringType
                        THEN StringType
                        ELSE UnknownType
                ELSE UnknownType
           [] node.Type = "MethodCall" ->
                IF Contains(node.Value, ".lower") THEN StringType ELSE UnknownType
           [] node.Type = "FunctionCall" -> UnknownType
           [] OTHER -> UnknownType

RECURSIVE analyzeNode(_, _), analyzeChildren(_, _, _), analyzeAssignment(_, _),
          analyzeIfStatement(_, _), analyzeCondition(_, _),
          analyzeBinaryOperation(_, _), analyzeFunctionCall(_, _)

\* for _, child := range children[i:] { sa.analyzeNode(child) }, i 1-based
analyzeChildren(sa, children, i) ==
    IF i > Len(children) THEN sa
    ELSE analyzeChildren(analyzeNode(sa, children[i]), children, i + 1)

analyzeNode(sa, node) ==
    IF node = Nil THEN sa
    ELSE CASE node.Type = "Program" -> analyzeChildren(sa, node.Children, 1)
           [] node.Type = "FunctionDef" -> analyzeChildren(sa, node.Children, 1)
           [] node.Type = "Assignment" -> analyzeAssignment(sa, node)
           [] node.Type = "IfStatement" -> analyzeIfStatement(sa, node)
           [] node.Type = "Block" -> analyzeChildren(sa, node.Children, 1)
           [] node.Type = "ExpressionStatement" ->
                analyzeChildren(sa, node.Children, 1)
           [] node.Type = "BinaryOp" -> analyzeBinaryOperation(sa, node)
           [] node.Type \in {"FunctionCall", "MethodCall"} ->
                analyzeFunctionCall(sa, node)
           [] OTHER -> analyzeChildren(sa, node.Children, 1)

\* analyzeAssignment keeping the first entry of a name
analyzeAssignmentFirstWins(sa, node) ==
    LET varName == node.Value
    IN  IF Len(node.Children) = 0
        THEN addError(sa, node.Line, "Asignación sin valor")
        ELSE LET valueNode == node.Children[1]
                 varType == inferType(sa, valueNode)
                 sa1 == IF varName \in DOMAIN sa.variables THEN sa
                        ELSE SetVariable(sa, varName,
                                         Variable(varName, varType, node.Line))
             IN  analyzeNode(sa1, valueNode)

analyzeAssignment(sa, node) ==
    LET varName == node.Value
    IN  IF Len(node.Children) = 0
        THEN addError(sa, node.Line, "Asignación sin valor")
        ELSE LET valueNode == node.Children[1]
                 varType == inferType(sa, valueNode)
                 sa1 == SetVariable(sa, varName,
                                    Variable(varName, varType, node.Line))
             IN  analyzeNode(sa1, valueNode)

analyzeIfStatement(sa, node) ==
    IF Len(node.Children) < 1
    THEN addError(sa, node.Line, "Declaración if sin condición")
    ELSE LET condition == node.Children[1]
             sa1 == analyzeCondition(sa, condition)
         IN  analyzeChildren(sa1, node.Children, 1)

analyzeCondition(sa, node) ==
    IF node = Nil THEN sa
    ELSE IF node.Type = "BinaryOp" THEN analyzeBinaryOperation(sa, node)
    ELSE analyzeNode(sa, node)

\* analyzeBinaryOperation reporting every relational comparison of a string
\* with anything that is not a string
analyzeBinaryOperationStrict(sa, node) ==
    IF Len(node.Children) < 2
    THEN addError(sa, node.Line, "Operación binaria incompleta")
    ELSE
    LET leftNode == node.Children[1]
        rightNode == node.Children[2]
        operator == node.Value
        leftType == inferType(sa, leftNode)
        rightType == inferType(sa, rightNode)
        sa1 ==
          IF operator \in {">", "<", ">=", "<="}
             /\ leftType # rightType /\ StringType \in {leftType, rightType}
          THEN addError(sa, node.Line,
                 "No se puede comparar string con número usando '"
                     \o operator \o "'")
          ELSE sa
    IN  analyzeNode(analyzeNode(sa1, leftNode), rightNode)

analyzeBinaryOperation(sa, node) ==
    IF Len(node.Children) < 2
    THEN addError(sa, node.Line, "Operación binaria incompleta")
    ELSE
    LET leftNode == node.Children[1]
        rightNode == node.Children[2]
        operator == node.Value
        leftType == inferType(sa, leftNode)
        rightType == inferType(sa, rightNode)
        sa1 ==
          CASE operator \in {">", "<", ">=", "<="} ->
                 IF leftType = StringType /\ rightType = IntType
                 THEN addError(sa, node.Line,
                        "No se puede comparar string con número usando '"
                            \o operator \o "'")
                 ELSE IF leftType = IntType /\ rightType = StringType
                 THEN addError(sa, node.Line,
                        "No se puede comparar número con string usando '"
                            \o operator \o "'")
                 ELSE sa
            [] operator \in {"==", "!="} ->
                 IF leftType = StringType /\ rightType = IntType
                 THEN addError(sa, node.Line,
                        "Comparación entre tipos incompatibles: string y número")
                 ELSE IF leftType = IntType /\ rightType = StringType
                 THEN addError(sa, node.Line,
                        "Comparación entre tipos incompatibles: número y string")
                 ELSE sa
            [] operator \in {"+", "-", "*", "/"} ->
                 IF (leftType = StringType \/ rightType = StringType)
                    /\ operator # "+"
                 THEN addError(sa, node.Line,
                        "Operador '" \o operator \o "' no válido para strings")
                 ELSE sa
            [] OTHER -> sa
    IN  analyzeNode(analyzeNode(sa1, leftNode), rightNode)

\* analyzeFunctionCall reporting lower() on every defined object
analyzeFunctionCallAnyType(sa, node) ==
    LET funcName == node.Value
        parts == Split(funcName, ".")
        sa1 ==
          IF Contains(funcName, ".") THEN
              IF Len(parts) = 2 THEN
                  LET objectName == parts[1]
                      methodName == parts[2]
                  IN  IF objectName \in DOMAIN sa.variables THEN
                          IF methodName = "lower"
                          THEN addError(sa, node.Line,
                                 "El método 'lower()' no está disponible para el tipo de '"
                                     \o objectName \o "'")
                          ELSE sa
                      ELSE addError(sa, node.Line,
                             "Variable '" \o objectName \o "' no está definida")
              ELSE sa
          ELSE IF funcName = "print" THEN analyzeChildren(sa, node.Children, 1)
          ELSE sa
    IN  analyzeChildren(sa1, node.Children, 1)

analyzeFunctionCall(sa, node) ==
    LET funcName == node.Value
        parts == Split(funcName, ".")
        sa1 ==
          IF Contains(funcName, ".") THEN
              IF Len(parts) = 2 THEN
                  LET objectName == parts[1]
                      methodName == parts[2]
                  IN  IF objectName \in DOMAIN sa.variables THEN
                          IF sa.variables[objectName].Type # StringType
                             /\ methodName = "lower"
                          THEN addError(sa, node.Line,
                                 "El método 'lower()' no está disponible para el tipo de '"
                                     \o objectName \o "'")
                          ELSE sa
                      ELSE addError(sa, node.Line,
                             "Variable '" \o objectName \o "' no está definida")
              ELSE sa
          ELSE IF funcName = "print" THEN analyzeChildren(sa, node.Children, 1)
          ELSE sa
    IN  analyzeChildren(sa1, node.Children, 1)

getTypeMismatches(sa) ==
    SelectSeq(sa.errors,
              LAMBDA err : Contains(err, "comparar") \/ Contains(err, "Comparación"))

\* semantico.Analyze
SemanticoAnalyze(tokens, ast) ==
    LET analyzer == IF ast # Nil THEN analyzeNode(NewAnalyzer(tokens), ast)
                    ELSE NewAnalyzer(tokens)
    IN  [Errors |-> analyzer.errors,
         Variables |-> analyzer.variables,
         TypeMismatches |-> getTypeMismatches(analyzer),
         Success |-> Len(analyzer.errors) = 0]

(***************************************************************************)
(* Request handler (package main)                                          *)
(***************************************************************************)
RECURSIVE JoinFrom(_, _)
\* the elements of a []string from 1-based position i on, separated by spaces
JoinFrom(strs, i) ==
    IF i > Len(strs) THEN ""
    ELSE IF i = Len(strs) THEN strs[i]
    ELSE strs[i] \o " " \o JoinFrom(strs, i + 1)

\* the %v verb of fmt.Sprintf for a []string
FormatSlice(strs) == "[" \o JoinFrom(strs, 1) \o "]"

AnalysisResponse(lex, syn, sem) ==
    [LexicalAnalysis |-> lex,
     SyntaxAnalysis |-> syn,
     SemanticAnalysis |-> sem,
     Success |-> Len(syn.Errors) = 0 /\ Len(sem.Errors) = 0,
     Error |-> IF Len(syn.Errors) > 0
               THEN "Errores de sintaxis: " \o FormatSlice(syn.Errors)
               ELSE IF Len(sem.Errors) > 0
               THEN "Errores semánticos: " \o FormatSlice(sem.Errors)
               ELSE ""]

(***************************************************************************)
(* Inputs: the request bodies the model is checked on                      *)
(***************************************************************************)
\* longest text drawn character by character
MaxChars == 3

\* most fragments joined, one per line, into a program
MaxFrags == 2

\* iterations of the parseProgram loop followed beyond one per token
MaxExtra == 2

\* a letter, a digit, the dot, a quote, the backslash (in no symbol list),
\* a blank, the line break, a symbol that doubles into a two-character one
\* and the vertical tab
Chars == <<"a", "1", ".", "'", "\\", " ", "\n", "=", VerticalTab>>

Fragments ==
    <<"x = 5", "x = 'a'", "y = x", "x > 'a'", "5 >= x + 1", "x == 'a'",
      "if x > 'a':", "def f(a, b):", "x.lower()", "f(x,", "print(x)",
      "pass", ")", "> 1", "\\", "x - 'a' >", "y.", "(1 > 'a') + 'b' < 5">>

\* the programs quoted by the specification's testable properties
Examples ==
    {"x = 5\nx = 'a'",
     "if x > 'a':\n  print(x)",
     "x = 5\nif x > 'a':\n  print(x)",
     "x = 5\nx.lower()",
     "x = 'hi'\nx.lower()",
     "if x > 1:\n  y = 1\ndef f():\n  pass",
     "==",
     "1.2.3",
     "x = 1 \\",
     "def f():\n  \\\n  x = 1",
     "print(1)",
     "x = 5\nx.upper(1)",
     "f(x,\n1)",
     "if x > 1:\n  y =\ndef f():\n  z",
     "comparar.lower()",
     "x = 5\nx - 'a'\nx == 'a'\ny.f()",
     "if x > 1:\n  y = 1\n  z",
     "def f():\n  x = 1\n  y",
     "def f():\n  x = 1\n  y = 2",
     "x = 'hi'\ny = x.lower()\ny.lower(y > 1)"}

RECURSIVE CharTexts(_)
\* every text of exactly n characters of Chars
CharTexts(n) ==
    IF n = 0 THEN {""}
    ELSE {t \o Chars[i] : t \in CharTexts(n - 1), i \in 1..Len(Chars)}

RECURSIVE FragTexts(_)
\* every program of exactly n (n >= 1) fragments, one per line
FragTexts(n) ==
    IF n = 1 THEN {Fragments[i] : i \in 1..Len(Fragments)}
    ELSE {t \o "\n" \o Fragments[i] : t \in FragTexts(n - 1), i \in 1..Len(Fragments)}

\* well-formed statements for the body of an if, one per line
BlockBodies ==
    {"x = 5", "y = x", "x.lower()", "5 >= x + 1", "f(x, 1)", "x = 5\ny = x"}

\* the line that follows the body: a definition or another if
BlockEnders == {"def f(a, b):", "if x > 'a':"}

\* an if, a body and the line that ends the body
BlockTexts ==
    {"if x > 'a':\n" \o body \o "\n" \o ender :
        body \in BlockBodies, ender \in BlockEnders}

Sources ==
    UNION {CharTexts(n) : n \in 0..MaxChars}
    \cup UNION {FragTexts(n) : n \in 1..MaxFrags}
    \cup Examples
    \cup BlockTexts

(***************************************************************************)
(* The handler analyzeCode as a state machine                              *)
(***************************************************************************)
Init ==
    /\ pc = "lex"
    /\ code \in Sources
    /\ lexicalResult = None
    /\ p = None
    /\ program = None
    /\ attempts = 0
    /\ syntaxResult = None
    /\ semanticResult = None
    /\ response = None

\* lexicalResult := lexer.Analyze(req.Code)
Lex ==
    /\ pc = "lex"
    /\ lexicalResult' = LexerAnalyze(code)
    /\ pc' = "parse"
    /\ UNCHANGED <<code, p, program, attempts, syntaxResult, semanticResult, response>>

\* parser.Analyze up to the first test of parseProgram's loop
ParserAnalyze ==
    /\ pc = "parse"
    /\ p' = NewParser(lexicalResult.Tokens)
    /\ program' = Node("Program", "", 1, <<>>)
    /\ pc' = "parseProgram"
    /\ UNCHANGED <<code, lexicalResult, attempts, syntaxResult, semanticResult, response>>

\* one iteration of parseProgram's loop; a panic inside parseStatement
\* unwinds the handler before the statement is appended
parseProgramStep ==
    /\ pc = "parseProgram"
    /\ ~isAtEnd(p)
    /\ attempts < Len(p.tokens) + MaxExtra
    /\ \E stmt \in {parseStatement(p)} :
           /\ p' = stmt.p
           /\ program' = IF stmt.node # Nil /\ ~stmt.p.fault
                         THEN [program EXCEPT !.Children = Append(@, stmt.node)]
                         ELSE program
           /\ pc' = IF stmt.p.fault THEN "panic" ELSE "parseProgram"
    /\ attempts' = attempts + 1
    /\ UNCHANGED <<code, lexicalResult, syntaxResult, semanticResult, response>>

\* parseProgram's loop ends and parser.Analyze returns
parseProgramReturn ==
    /\ pc = "parseProgram"
    /\ isAtEnd(p)
    /\ syntaxResult' = SyntaxResult(p, program)
    /\ pc' = "semantic"
    /\ UNCHANGED <<code, lexicalResult, p, program, attempts, semanticResult, response>>

\* semanticResult := semantico.Analyze(lexicalResult.Tokens, syntaxResult.AST)
Semantic ==
    /\ pc = "semantic"
    /\ semanticResult' = SemanticoAnalyze(lexicalResult.Tokens, syntaxResult.AST)
    /\ pc' = "respond"
    /\ UNCHANGED <<code, lexicalResult, p, program, attempts, syntaxResult, response>>

\* the response is built and encoded
Respond ==
    /\ pc = "respond"
    /\ response' = AnalysisResponse(lexicalResult, syntaxResult, semanticResult)
    /\ pc' = "done"
    /\ UNCHANGED <<code, lexicalResult, p, program, attempts, syntaxResult, semanticResult>>

Next ==
    \/ Lex
    \/ ParserAnalyze
    \/ parseProgramStep
    \/ parseProgramReturn
    \/ Semantic
    \/ Respond

Spec == Init /\ [][Next]_vars

(***************************************************************************)
(* Properties                                                              *)
(***************************************************************************)
\* the parser has been created
Parsing == pc \in {"parseProgram", "panic", "semantic", "respond", "done"}

\* parser.Analyze has returned
Parsed == pc \in {"semantic", "respond", "done"}

\* the scanner has returned
Scanned == pc # "lex"

RECURSIVE NodesOf(_)
\* every node of the tree rooted at n
NodesOf(n) ==
    IF n = Nil THEN {}
    ELSE {n} \cup UNION {NodesOf(n.Children[i]) : i \in 1..Len(n.Children)}

\* the elements of a sequence
Range(seq) == {seq[i] : i \in 1..Len(seq)}

\* C1: the parser terminates: a null statement makes the caller skip one
\* token, so the statement attempts of parseProgram never outnumber the tokens.
C1_AttemptsBoundedByTokens ==
    Parsing => attempts <= Len(p.tokens)

\* C2: no stage faults: the handler never panics on a nil left operand.
C2_NeverFaults == pc # "panic"

\* statements that are malformed on their own
MalformedStatements == {")", "> 1", "f(x,", "y.", "x - 'a' >", "\\"}

\* the Assignment node of the statement x = 5 written on line 2
ValidOnLine2 ==
    Node("Assignment", "x", 2, <<Node("Number", "5", 2, <<>>)>>)

\* C3: resynchronization: a malformed statement followed by the valid
\* statement x = 5 is parsed to the end, the tree holds the Assignment and
\* there is at least one syntax diagnostic.
C3_Resynchronizes ==
    (Parsing /\ \E bad \in MalformedStatements : code = bad \o "\n" \o "x = 5")
    => /\ pc # "panic"
       /\ attempts <= Len(p.tokens)
       /\ Parsed => /\ ValidOnLine2 \in NodesOf(syntaxResult.AST)
                    /\ Len(syntaxResult.Errors) >= 1

\* programs that are clean but for one unrecognized character
LexicalOnlyInputs == {"def f():\n  \\\n  x = 1", "x = 1 \\"}

\* C4: a lexical diagnostic alone leaves the syntax and semantic error
\* lists empty and the top-level success flag true.
C4_LexicalErrorKeepsSuccess ==
    (pc = "done" /\ code \in LexicalOnlyInputs)
    => /\ Len(lexicalResult.Errors) = 1
       /\ response.SyntaxAnalysis.Errors = <<>>
       /\ response.SemanticAnalysis.Errors = <<>>
       /\ response.Success

\* a def or if keyword token
IsDefOrIf(token) == token.Type = KEYWORD /\ token.Value \in {"def", "if"}

\* C5: the block heuristic: no Block has a FunctionDef or an IfStatement as a
\* child; and when the text starts with an if and what follows its colon is
\* followed by a def or if keyword that opens a later line, no statement of
\* the if's Block lies on or after the line of that keyword and the definition
\* the keyword opens is a child of Program.
C5_BlockStopsAtDefinition ==
    Parsed =>
    /\ \A n \in NodesOf(program) :
         n.Type = "Block"
         => \A c \in Range(n.Children) : c.Type \notin {"FunctionDef", "IfStatement"}
    /\ \A k \in 2..Len(p.tokens) :
         (/\ IsDefOrIf(p.tokens[k])
          /\ \A j \in 2..(k - 1) : ~IsDefOrIf(p.tokens[j])
          /\ p.tokens[1].Type = KEYWORD /\ p.tokens[1].Value = "if"
          /\ p.tokens[k].Line > p.tokens[k - 1].Line
          /\ \E j \in 2..(k - 1) : p.tokens[j].Value = ":" /\ p.tokens[j].Line = 1
          /\ Len(program.Children) >= 1
          /\ program.Children[1].Type = "IfStatement")
         => /\ \A c \in Range(program.Children[1].Children[2].Children) :
                 \A n \in NodesOf(c) : n.Line < p.tokens[k].Line
            /\ \E c \in Range(program.Children) :
                 /\ c.Type \in {"FunctionDef", "IfStatement"}
                 /\ c.Line = p.tokens[k].Line

\* inputs that are one print statement
PrintInputs == {"print(1)", "print(x)"}

\* C6: a print statement is accepted: its first statement attempt records no
\* syntax diagnostic and yields a FunctionCall node named print.
C6_PrintAccepted ==
    (pc = "parseProgram" /\ attempts >= 1 /\ code \in PrintInputs)
    => /\ p.errors = <<>>
       /\ \E n \in NodesOf(program) : n.Type = "FunctionCall" /\ n.Value = "print"

\* C7: token order: every token has line >= 1 and column >= 1 and covers at
\* least one character, and the tokens strictly increase in (line, column).
C7_TokensStrictlyOrdered ==
    Scanned =>
    LET tokens == lexicalResult.Tokens
    IN  /\ \A k \in 1..Len(tokens) :
             tokens[k].Line >= 1 /\ tokens[k].Column >= 1 /\ Len(tokens[k].Value) >= 1
        /\ \A k \in 1..(Len(tokens) - 1) :
             \/ tokens[k].Line < tokens[k + 1].Line
             \/ /\ tokens[k].Line = tokens[k + 1].Line
                /\ tokens[k].Column < tokens[k + 1].Column

\* tokens on two lines, two of them on one line, one of several characters
C7_Witness ==
    /\ Scanned
    /\ \E j, k \in 1..Len(lexicalResult.Tokens) :
         /\ j < k
         /\ lexicalResult.Tokens[j].Line = lexicalResult.Tokens[k].Line
         /\ Len(lexicalResult.Tokens[j].Value) >= 2
    /\ \E j, k \in 1..Len(lexicalResult.Tokens) :
         lexicalResult.Tokens[j].Line < lexicalResult.Tokens[k].Line

\* an Error token made by an unterminated string starts with its quote
IsUnterminatedString(token) ==
    token.Type = ERROR /\ Ch(token.Value, 1) \in {"'", "\""}

\* an Error token made by one unrecognized character
IsUnrecognizedChar(token) ==
    token.Type = ERROR /\ ~IsUnterminatedString(token)

\* C8: the lexical diagnostics are, in token order, one message per Error
\* token of an unrecognized character, naming the character, its line and its
\* column; an unterminated string is one Error token that spans the rest of
\* its line and has no message.
C8_DiagnosticsForUnrecognizedOnly ==
    Scanned =>
    LET tokens == lexicalResult.Tokens
        unrecognized == SelectSeq(tokens, IsUnrecognizedChar)
        unterminated == SelectSeq(tokens, IsUnterminatedString)
        errorTokens == SelectSeq(tokens, LAMBDA t : t.Type = ERROR)
        lines == Split(code, "\n")
    IN  /\ Len(lexicalResult.Errors) = Len(errorTokens) - Len(unterminated)
        /\ lexicalResult.Errors =
             [k \in 1..Len(unrecognized) |->
                 "Carácter no reconocido '" \o unrecognized[k].Value
                    \o "' en línea " \o Itoa(unrecognized[k].Line)
                    \o ", columna " \o Itoa(unrecognized[k].Column)]
        /\ \A k \in 1..Len(unrecognized) : Len(unrecognized[k].Value) = 1
        /\ \A k \in 1..Len(unterminated) :
             /\ unterminated[k].Value
                  = From(lines[unterminated[k].Line], unterminated[k].Column)
             /\ \A j \in 1..Len(tokens) :
                  tokens[j].Line = unterminated[k].Line
                  => tokens[j].Column <= unterminated[k].Column

\* an unrecognized character and an unterminated string in one scan
C8_Witness ==
    /\ Scanned
    /\ \E t \in Range(lexicalResult.Tokens) : IsUnrecognizedChar(t)
    /\ \E t \in Range(lexicalResult.Tokens) :
         IsUnterminatedString(t) /\ Len(t.Value) >= 2
    /\ Len(lexicalResult.Errors) = 1

RECURSIVE AssignmentsOf(_), AssignmentsIn(_, _)
\* the Assignment nodes under n in textual (pre-order) order
AssignmentsOf(n) ==
    IF n = Nil THEN <<>>
    ELSE (IF n.Type = "Assignment" THEN <<n>> ELSE <<>>)
             \o AssignmentsIn(n.Children, 1)

\* the Assignment nodes under children[i], children[i + 1], ...
AssignmentsIn(children, i) ==
    IF i > Len(children) THEN <<>>
    ELSE AssignmentsOf(children[i]) \o AssignmentsIn(children, i + 1)

RECURSIVE LastWrites(_, _, _)
\* the table after the assignments as[k], as[k + 1], ... are written over
\* table one after the other, each with the type its value has at that point
LastWrites(table, as, k) ==
    IF k > Len(as) THEN table
    ELSE LastWrites(
             [n \in (DOMAIN table) \cup {as[k].Value} |->
                 IF n = as[k].Value
                 THEN [Name |-> n,
                       Type |-> inferType([variables |-> table], as[k].Children[1]),
                       Line |-> as[k].Line]
                 ELSE table[n]],
             as, k + 1)

\* C9: last write wins: after the semantic analysis the table's keys are the
\* targets of the Assignment nodes, each entry carries the type and the line
\* of the textually last Assignment to its name, parameters are not entered,
\* and a program of plain assignments, retyping included, has no diagnostic.
C9_LastWriteWins ==
    pc \in {"respond", "done"} =>
    LET ast == syntaxResult.AST
        as == AssignmentsOf(ast)
        table == semanticResult.Variables
        assigned == {as[k].Value : k \in 1..Len(as)}
        parameters == {n.Value : n \in {m \in NodesOf(ast) : m.Type = "Parameter"}}
    IN  /\ DOMAIN table = assigned
        /\ table = LastWrites(<<>>, as, 1)
        /\ \A k \in 1..Len(as) :
             (\A j \in (k + 1)..Len(as) : as[j].Value # as[k].Value)
             => /\ table[as[k].Value].Name = as[k].Value
                /\ table[as[k].Value].Line = as[k].Line
        /\ (parameters \ assigned) \cap DOMAIN table = {}
        /\ (\A c \in Range(ast.Children) :
               /\ c.Type = "Assignment"
               /\ c.Children[1].Type \in {"Number", "String", "Identifier"})
           => semanticResult.Errors = <<>>

\* a name assigned a number and later a string ends as a string on the later
\* line, with no diagnostic
C9_Witness ==
    /\ pc = "done"
    /\ \E j, k \in 1..Len(AssignmentsOf(syntaxResult.AST)) :
         LET as == AssignmentsOf(syntaxResult.AST)
         IN  /\ j < k /\ k = Len(as)
             /\ as[j].Value = as[k].Value
             /\ as[j].Line < as[k].Line
             /\ as[j].Children[1].Type = "Number"
             /\ as[k].Children[1].Type = "String"
             /\ semanticResult.Variables[as[k].Value]
                  = [Name |-> as[k].Value, Type |-> StringType, Line |-> as[k].Line]
    /\ semanticResult.Errors = <<>>

\* the tables a comparison is analyzed under: the final one of the run, the
\* empty one, and x alone with each type
ComparisonTables ==
    {semanticResult.Variables, <<>>}
    \cup {[n \in {"x"} |-> [Name |-> "x", Type |-> t, Line |-> 1]] :
            t \in {IntType, StringType, BoolType, UnknownType}}

\* C10: analyzing a BinaryOp of >, <, >= or <= adds one type-mismatch
\* diagnostic exactly when one operand's inferred type is int and the other's
\* is string, then the diagnostics of analyzing the left and the right
\* operand follow; x > 'a' with x undefined has no semantic diagnostic.
C10_RelationalMismatch ==
    pc \in {"respond", "done"} =>
    /\ \A n \in NodesOf(syntaxResult.AST) : \A table \in ComparisonTables :
         (n.Type = "BinaryOp" /\ n.Value \in {">", "<", ">=", "<="})
         => LET sa == [variables |-> table, errors |-> <<>>, tokens |-> <<>>]
                out == analyzeBinaryOperation(sa, n)
                operands == analyzeNode(sa, n.Children[1]).errors
                                \o analyzeNode(sa, n.Children[2]).errors
                mismatch == {inferType(sa, n.Children[1]), inferType(sa, n.Children[2])}
                               = {IntType, StringType}
            IN  /\ out.variables = table
                /\ Len(out.errors) = Len(operands) + (IF mismatch THEN 1 ELSE 0)
                /\ SubSeq(out.errors, Len(out.errors) - Len(operands) + 1,
                          Len(out.errors)) = operands
                /\ mismatch
                   => /\ SubSeq(out.errors[1], 1, Len("Error semántico en línea " \o Itoa(n.Line) \o ": "))
                           = "Error semántico en línea " \o Itoa(n.Line) \o ": "
                      /\ Contains(out.errors[1], "comparar")
                      /\ Contains(out.errors[1], "usando '" \o n.Value \o "'")
                      /\ getTypeMismatches(out)[1] = out.errors[1]
    /\ code = "x > 'a'" => semanticResult.Errors = <<>>

\* a run that compares an int variable with a string and reports it, in a
\* tree whose comparison also has an operand of unknown type under the empty
\* table
C10_Witness ==
    /\ pc = "done"
    /\ \E n \in NodesOf(syntaxResult.AST) :
         /\ n.Type = "BinaryOp" /\ n.Value \in {">", "<", ">=", "<="}
         /\ n.Children[1].Type = "Identifier"
         /\ inferType([variables |-> semanticResult.Variables], n.Children[1]) = IntType
         /\ inferType([variables |-> semanticResult.Variables], n.Children[2]) = StringType
         /\ inferType([variables |-> <<>>], n.Children[1]) = UnknownType
    /\ Len(semanticResult.TypeMismatches) >= 1

\* C11: method validity: analyzing a call node named obj.method adds, before
\* the diagnostics of its arguments, 'variable not defined' naming obj when
\* obj is not in the table, the lower() diagnostic naming obj when obj is in
\* the table with a type other than string and the method is lower, and
\* nothing otherwise; x = 5 then x.lower() reports lower(), x = 'hi' then
\* x.lower() reports nothing.
C11_MethodValidity ==
    pc \in {"respond", "done"} =>
    /\ \A n \in NodesOf(syntaxResult.AST) : \A table \in ComparisonTables :
         (n.Type = "MethodCall")
         => LET sa == [variables |-> table, errors |-> <<>>, tokens |-> <<>>]
                out == analyzeFunctionCall(sa, n)
                dot == IndexFrom(n.Value, ".", 1)
                obj == SubSeq(n.Value, 1, dot - 1)
                method == From(n.Value, dot + 1)
                arguments == analyzeChildren(sa, n.Children, 1).errors
                prefix == "Error semántico en línea " \o Itoa(n.Line) \o ": "
                expected ==
                  IF obj \notin DOMAIN table
                  THEN <<prefix \o "Variable '" \o obj \o "' no está definida">>
                  ELSE IF method = "lower" /\ table[obj].Type # StringType
                  THEN <<prefix \o "El método 'lower()' no está disponible para el tipo de '"
                            \o obj \o "'">>
                  ELSE <<>>
            IN  /\ out.errors = expected \o arguments
                /\ out.variables = table
    /\ code = "x = 5\nx.lower()"
       => semanticResult.Errors =
            <<"Error semántico en línea 2: El método 'lower()' no está disponible para el tipo de 'x'">>
    /\ code = "x = 'hi'\nx.lower()" => semanticResult.Errors = <<>>
    /\ code = "x = 5\nx.upper(1)" => semanticResult.Errors = <<>>

\* a run over x = 5 and x.lower() that ends with the lower() diagnostic
C11_Witness ==
    /\ pc = "done"
    /\ code = "x = 5\nx.lower()"
    /\ \E n \in NodesOf(syntaxResult.AST) : n.Type = "MethodCall" /\ n.Value = "x.lower"
    /\ semanticResult.Variables["x"].Type = IntType
    /\ Len(semanticResult.Errors) = 1

\* C12: a node's line is the line of its leftmost token: in a tree parsed
\* without a syntax diagnostic no node lies on a later line than one of its
\* children, whose tokens are among its own (a Block without children has no
\* token and is left out).
C12_LineOfLeftmostToken ==
    (Parsed /\ syntaxResult.Errors = <<>>) =>
    \A n \in NodesOf(syntaxResult.AST) :
        \A c \in Range(n.Children) :
            (c # Nil /\ ~(c.Type = "Block" /\ c.Children = <<>>))
            => n.Line <= c.Line

\* C13 as stated: 1.2.3 scans as the Number 1.2 followed by an Error token
\* for the dot.
C13_SecondDotIsError ==
    (Scanned /\ code = "1.2.3")
    => /\ Len(lexicalResult.Tokens) >= 2
       /\ lexicalResult.Tokens[1] = Token(NUMBER, "1.2", 1, 1)
       /\ lexicalResult.Tokens[2].Type = ERROR
       /\ lexicalResult.Tokens[2].Value = "."

\* C13 amended: a Number token starts with a digit, is made of digits and at
\* most one dot, and is maximal: the character after it is no digit, and is a
\* dot only when the number holds one already; the second dot ends the number
\* without a diagnostic and is scanned as the symbol '.', so 1.2.3 scans as
\* Number 1.2, Symbol . and Number 3 with no lexical diagnostic.
C13_SecondDotIsSymbol ==
    Scanned =>
    LET tokens == lexicalResult.Tokens
        lines == Split(code, "\n")
    IN  /\ \A k \in 1..Len(tokens) :
             tokens[k].Type = NUMBER
             => LET value == tokens[k].Value
                    dots == {i \in 1..Len(value) : Ch(value, i) = "."}
                    line == lines[tokens[k].Line]
                    next == tokens[k].Column + Len(value)
                    after == IF next <= Len(line) THEN Ch(line, next) ELSE ""
                IN  /\ IsDigit(Ch(value, 1))
                    /\ \A i \in 1..Len(value) : IsDigit(Ch(value, i)) \/ i \in dots
                    /\ Cardinality(dots) <= 1
                    /\ ~IsDigit(after)
                    /\ after = "." => /\ dots # {}
                                      /\ k < Len(tokens)
                                      /\ tokens[k + 1] =
                                           Token(SYMBOL, ".", tokens[k].Line,
                                                 tokens[k].Column + Len(value))
        /\ code = "1.2.3"
           => /\ tokens = <<Token(NUMBER, "1.2", 1, 1), Token(SYMBOL, ".", 1, 4),
                            Token(NUMBER, "3", 1, 5)>>
              /\ lexicalResult.Errors = <<>>
              /\ lexicalResult.Table.Error = <<>>

\* the scan of 1.2.3: a number with one dot, then the dot as a symbol
C13_Witness ==
    /\ Scanned
    /\ code = "1.2.3"
    /\ Len(lexicalResult.Tokens) = 3
    /\ lexicalResult.Tokens[1].Value = "1.2"
    /\ lexicalResult.Tokens[2].Type = SYMBOL

\* C14: a block that meets no def or if runs to the end of the input: when
\* the text starts with def or if, holds no later def or if token and parses
\* without a syntax diagnostic, every statement after the colon is inside the
\* Block, so Program has the one child that owns the Block.
C14_BlockRunsToEnd ==
    (/\ Parsed
     /\ syntaxResult.Errors = <<>>
     /\ Len(p.tokens) >= 1
     /\ p.tokens[1].Type = KEYWORD /\ p.tokens[1].Value \in {"def", "if"}
     /\ \A k \in 2..Len(p.tokens) :
          ~(p.tokens[k].Type = KEYWORD /\ p.tokens[k].Value \in {"def", "if"}))
    => Len(syntaxResult.AST.Children) = 1

\* the diagnostics analyzeBinaryOperation adds for the node n itself under
\* table, those of its operands left out
OwnDiagnostics(table, n) ==
    LET sa == [variables |-> table, errors |-> <<>>, tokens |-> <<>>]
        out == analyzeBinaryOperation(sa, n).errors
        operands == Len(analyzeNode(sa, n.Children[1]).errors)
                       + Len(analyzeNode(sa, n.Children[2]).errors)
    IN  SubSeq(out, 1, Len(out) - operands)

RECURSIVE OnceEach(_, _), OnceEachIn(_, _, _)
\* a traversal that visits every node once, in order: st.table follows the
\* assignments, st.errs collects the diagnostics of the BinaryOp nodes
OnceEach(st, n) ==
    IF n = Nil THEN st
    ELSE IF n.Type = "Assignment" /\ Len(n.Children) > 0
    THEN OnceEachIn([st EXCEPT !.table = LastWrites(st.table, <<n>>, 1)],
                    n.Children, 1)
    ELSE IF n.Type = "BinaryOp"
    THEN OnceEachIn([st EXCEPT !.errs = @ \o OwnDiagnostics(st.table, n)],
                    n.Children, 1)
    ELSE OnceEachIn(st, n.Children, 1)

\* OnceEach over children[i], children[i + 1], ...
OnceEachIn(st, children, i) ==
    IF i > Len(children) THEN st
    ELSE OnceEachIn(OnceEach(st, children[i]), children, i + 1)

\* a diagnostic of analyzeBinaryOperation
IsBinaryOpDiagnostic(err) ==
    Contains(err, "comparar") \/ Contains(err, "Comparación")
        \/ Contains(err, "Operador '")

\* C15: each offending node is diagnosed once: the diagnostics of BinaryOp
\* nodes in the semantic error list are those of one visit of every BinaryOp
\* node of the tree, the condition of an if included.
C15_DiagnosedOnce ==
    pc \in {"respond", "done"} =>
    SelectSeq(semanticResult.Errors, IsBinaryOpDiagnostic)
        = OnceEach([table |-> <<>>, errs |-> <<>>], syntaxResult.AST).errs

\* the messages of the Int/String checks of the relational and the equality
\* operators
MismatchMessages ==
    {"No se puede comparar string con número usando '" \o op \o "'" :
        op \in {">", "<", ">=", "<="}}
    \cup {"No se puede comparar número con string usando '" \o op \o "'" :
            op \in {">", "<", ">=", "<="}}
    \cup {"Comparación entre tipos incompatibles: string y número",
          "Comparación entre tipos incompatibles: número y string"}

\* err is the diagnostic of a relational or equality Int/String check: one
\* of their messages behind the line prefix
IsMismatchDiagnostic(err) ==
    LET colon == IndexFrom(err, ": ", 1)
    IN  colon # 0 /\ From(err, colon + 2) \in MismatchMessages

\* C16: type_mismatches is the sub-list, in order, of the semantic errors
\* that the relational and equality Int/String checks emitted, whatever the
\* identifiers are called, and the semantic success flag is true exactly when
\* the semantic error list is empty.
C16_TypeMismatchesFilter ==
    pc \in {"respond", "done"} =>
    /\ semanticResult.TypeMismatches
         = SelectSeq(semanticResult.Errors, IsMismatchDiagnostic)
    /\ semanticResult.Success <=> (semanticResult.Errors = <<>>)

====
